---------------------------- MODULE Spec2Model ----------------------------
(***************************************************************************)
(* libvips-mcp: the v1.2.0 MCP server of src/src/index.ts (lines 1-1996).  *)
(*                                                                         *)
(* The server registers two request handlers with the protocol SDK: a      *)
(* tool-listing handler that returns the static `tools` array and a        *)
(* tool-invocation handler, one `switch (name)` whose cases call Sharp     *)
(* and/or wasm-vips.  The handler is an async function: the code between   *)
(* two awaits runs to completion, and at every await (mkdir, a Sharp       *)
(* promise, Vips()) the handler is suspended and the event loop may run    *)
(* another request's handler.  One action below is one such run-to-        *)
(* completion segment.                                                     *)
(*                                                                         *)
(* Sharp and wasm-vips are libraries outside the repository: the model    *)
(* gives them the behaviour their calls depend on (an input that is no     *)
(* image or an output directory that does not exist makes the call throw)  *)
(* and fixes, per run, whether the wasm-vips build loads and works.        *)
(***************************************************************************)
EXTENDS Integers, Sequences, FiniteSets, Bags, TLC

(***************************************************************************)
(* JSON values.  An object is a record that holds exactly the properties   *)
(* that were sent; reading an absent property gives undefined, which the   *)
(* model tests with Has.  A path is the sequence of its components, << >>  *)
(* the working directory; a template literal is the sequence of its        *)
(* literal parts and interpolated values.                                  *)
(***************************************************************************)
Has(obj, key) == key \in DOMAIN obj

\* `${value}` of a property that holds a string, or of an absent one.
Interpolate(obj, key) == IF Has(obj, key) THEN << obj[key] >> ELSE << "undefined" >>

\* `${path}` of a property that holds a path, or of an absent one.
InterpolatePath(obj, key) == IF Has(obj, key) THEN obj[key] ELSE << "undefined" >>

(***************************************************************************)
(* The tools array and the dispatcher's case labels.                       *)
(***************************************************************************)
\* const tools: Tool[] = [...] : the descriptors' names, in array order.
ToolNames ==
  << "image_info", "image_resize", "image_convert", "image_crop",
     "image_rotate", "image_flip", "image_blur", "image_sharpen",
     "image_adjust_brightness", "image_adjust_contrast",
     "image_adjust_saturation", "image_grayscale", "image_composite",
     "image_thumbnail", "image_extract_channel", "image_histogram",
     "create_solid_color", "image_morphology", "image_draw_line",
     "image_draw_circle", "image_edge_detection", "image_advanced_stats",
     "image_fft", "image_custom_convolution", "image_colorspace_convert",
     "image_add_noise", "image_perspective_transform",
     "image_texture_analysis", "image_flood_fill", "image_create_pyramid" >>

\* switch (name) { case '...': } : the labels of the dispatcher's cases.
CaseLabels ==
  { "image_info", "image_resize", "image_convert", "image_crop",
    "image_rotate", "image_flip", "image_blur", "image_sharpen",
    "image_adjust_brightness", "image_adjust_contrast",
    "image_adjust_saturation", "image_grayscale", "image_composite",
    "image_thumbnail", "image_extract_channel", "image_histogram",
    "create_solid_color", "image_morphology", "image_draw_line",
    "image_draw_circle", "image_edge_detection", "image_advanced_stats",
    "image_fft", "image_custom_convolution", "image_colorspace_convert",
    "image_add_noise", "image_perspective_transform",
    "image_texture_analysis", "image_flood_fill", "image_create_pyramid" }

\* The cases whose body is try { await initVips(); <wasm-vips> } catch { <Sharp> }.
WasmCases ==
  { "image_morphology", "image_draw_line", "image_edge_detection",
    "image_advanced_stats", "image_fft", "image_custom_convolution",
    "image_colorspace_convert", "image_add_noise",
    "image_perspective_transform", "image_texture_analysis",
    "image_flood_fill" }

\* image_composite checking its base image only.
InputChecks_BaseOnly(name) ==
  CASE name = "image_info" ->
         << [key |-> "image_path", msg |-> "Image file not found: "] >>
    [] name = "image_composite" ->
         << [key |-> "base_image_path", msg |-> "Base image not found: "] >>
    [] name = "create_solid_color" -> << >>
    [] OTHER ->
         << [key |-> "input_path", msg |-> "Input image not found: "] >>

\* The existsSync checks a case makes, in order: the argument read and the
\* literal that starts the message of the Error thrown when the path is missing.
InputChecks(name) ==
  CASE name = "image_info" ->
         << [key |-> "image_path", msg |-> "Image file not found: "] >>
    [] name = "image_composite" ->
         << [key |-> "base_image_path", msg |-> "Base image not found: "],
            [key |-> "overlay_image_path", msg |-> "Overlay image not found: "] >>
    [] name = "create_solid_color" -> << >>
    [] OTHER ->
         << [key |-> "input_path", msg |-> "Input image not found: "] >>

\* switch (method) of image_edge_detection and switch (noise_type) of
\* image_add_noise, inside the try: the labels that have a case.
EdgeMethods == { "sobel", "prewitt", "roberts", "laplacian" }

NoiseTypes == { "gaussian", "uniform", "salt_pepper" }

\* Whether the switch inside the try reaches default: throw new Error(...).
InnerSwitchThrows(name, args) ==
  \/ name = "image_edge_detection"
       /\ ~(Has(args, "method") /\ args.method \in EdgeMethods)
  \/ name = "image_add_noise"
       /\ ~(Has(args, "noise_type") /\ args.noise_type \in NoiseTypes)

\* The cases that do not call ensureDirectoryExists.
NoOutputCases ==
  { "image_info", "image_histogram", "image_advanced_stats",
    "image_texture_analysis" }

\* The argument a case hands to ensureDirectoryExists.
OutputKey(name) ==
  IF name = "image_create_pyramid" THEN "output_dir" ELSE "output_path"

\* The first property the case's destructuring pattern names (it is the one
\* V8's TypeError mentions when args is undefined).
FirstKey(name) ==
  CASE name = "image_info" -> "image_path"
    [] name = "image_composite" -> "base_image_path"
    [] name = "create_solid_color" -> "output_path"
    [] OTHER -> "input_path"

(***************************************************************************)
(* Paths and the filesystem: [files, dirs, images], the regular files, the *)
(* directories, and the files that decode as an image.                     *)
(***************************************************************************)
InPng == << "in.png" >>
MissingPng == << "missing.png" >>
OutPng == << "out", "o.png" >>
\* An output path whose directory name is the regular file in.png.
BlockedPng == << "in.png", "o.png" >>
PyramidDir == << "out", "pyr" >>
\* A directory that exists when the server starts.
TilesDir == << "tiles" >>

\* path.dirname
Dirname(p) == SubSeq(p, 1, Len(p) - 1)

\* The directories mkdir(dir, { recursive: true }) has to find or make.
Ancestors(dir) == { SubSeq(dir, 1, n) : n \in 1..Len(dir) }

\* `level_${level}.jpg`
LevelFile(level) ==
  CASE level = 0 -> "level_0.jpg" [] level = 1 -> "level_1.jpg"
    [] level = 2 -> "level_2.jpg" [] level = 3 -> "level_3.jpg"
    [] level = 4 -> "level_4.jpg" [] level = 5 -> "level_5.jpg"
    [] level = 6 -> "level_6.jpg" [] OTHER -> "level_7.jpg"

\* `${output_dir}/level_${level}.jpg`
LevelPath(dir, level) == dir \o << LevelFile(level) >>

\* fs.existsSync of a string: true for files and directories alike.
existsSync(f, p) == p = << >> \/ p \in f.files \/ p \in f.dirs

\* existsSync(args.key): false when the property is absent.
ArgExists(f, args, key) == Has(args, key) /\ existsSync(f, args[key])

DirExists(f, d) == d = << >> \/ d \in f.dirs

\* fs/promises mkdir(dir, { recursive: true }): rejects when a component of
\* dir is a regular file, and otherwise makes every missing ancestor.
MkdirOk(f, dir) == Ancestors(dir) \cap f.files = {}

MkdirEffect(f, dir) == [f EXCEPT !.dirs = @ \cup Ancestors(dir)]

\* A file written by Sharp's toFile or wasm-vips' writeToFile holds an image.
WriteEffect(f, p) ==
  [f EXCEPT !.files = @ \cup {p}, !.images = @ \cup {p}]

CanWrite(f, p) == DirExists(f, Dirname(p)) /\ p \notin f.dirs

(***************************************************************************)
(* The declared schema of image_convert and the handler's defaults.        *)
(***************************************************************************)
\* inputSchema of image_convert.
ConvertSchema ==
  [ required |-> { "input_path", "output_path", "format" },
    enum     |-> { "jpeg", "png", "webp", "tiff", "avif", "heif" },
    minimum  |-> 1,
    maximum  |-> 100 ]

\* quality || 80
DefaultQuality == 80

\* levels = 4
DefaultLevels == 4

\* scale_factor = 0.5.  A number that need not be whole is [num, den].
DefaultScale == [num |-> 1, den |-> 2]

\* metadata.width and metadata.height of the image in.png.
SourceWidth == 16

SourceHeight == 9

\* currentWidth *= scale_factor
Times(x, factor) == [num |-> x.num * factor.num, den |-> x.den * factor.den]

\* Math.floor of a number that is not negative.
Floor(x) == x.num \div x.den

\* Whether request.params breaks image_convert's declared schema: a required
\* property absent, format outside the enum, quality outside
\* [minimum, maximum].
ViolatesConvertSchema(params) ==
  \/ ~Has(params, "arguments")
  \/ /\ Has(params, "arguments")
     /\ LET args == params.arguments IN
          \/ \E k \in ConvertSchema.required : ~Has(args, k)
          \/ Has(args, "format") /\ args.format \notin ConvertSchema.enum
          \/ /\ Has(args, "quality")
             /\ (args.quality < ConvertSchema.minimum
                   \/ args.quality > ConvertSchema.maximum)

(***************************************************************************)
(* Exceptions and results.                                                 *)
(***************************************************************************)
\* new Error(message), and the TypeError the runtime throws.
Error(message) == [instanceOfError |-> TRUE, name |-> "Error", message |-> message]

TypeError(message) ==
  [instanceOfError |-> TRUE, name |-> "TypeError", message |-> message]

\* String(error): for an Error, its name, ": " and its message.
String(e) ==
  IF e.instanceOfError THEN << e.name, ": " >> \o e.message ELSE e.message

\* A returned result object that carries the flag, set to false.
Success_Flagged(text) ==
  [content |-> << [type |-> "text", text |-> text] >>, isError |-> FALSE]

\* A returned result object without isError.
Success(text) == [content |-> << [type |-> "text", text |-> text] >>]

\* The result the top-level catch returns for a caught value.
TopLevelCatch_Rethrow(e) == [rejected |-> e]

TopLevelCatch(e) ==
  [content |-> << [type |-> "text",
                   text |-> << "Error: " >> \o
                              (IF e.instanceOfError THEN e.message ELSE String(e))] >>,
   isError |-> TRUE]

IsResult(res) == Has(res, "content")

IsErrorResult(res) == IsResult(res) /\ Has(res, "isError") /\ res.isError

TextOf(res) == res.content[1].text

(***************************************************************************)
(* Sharp.  A call the handler awaits is [op, reads, writes]: the files the *)
(* pipeline decodes and the file toFile writes.                            *)
(***************************************************************************)
SharpCall(op, reads, writes) == [op |-> op, reads |-> reads, writes |-> writes]

SharpThrows(f, call) ==
  \/ \E p \in call.reads : p \notin f.images
  \/ \E p \in call.writes : ~CanWrite(f, p)

\* The Error a failing call rejects with.
SharpError(f, call) ==
  IF \E p \in call.reads : p \notin f.images
    THEN Error(<< "Input file contains unsupported image format" >>)
    ELSE Error(<< "unable to open for write" >>)

SharpEffect(f, call) ==
  IF call.writes = {} THEN f
  ELSE WriteEffect(f, CHOOSE p \in call.writes : TRUE)

\* levels = 4 in the destructuring pattern.
Levels(args) == IF Has(args, "levels") THEN args.levels ELSE DefaultLevels

\* The Sharp calls a case awaits on its main path, in order (a wasm-vips case
\* awaits none there).
MainPlan(name, args) ==
  CASE name = "image_info" ->
         << SharpCall("metadata", {args.image_path}, {}),
            SharpCall("stats", {args.image_path}, {}) >>
    [] name = "image_histogram" ->
         << SharpCall("stats", {args.input_path}, {}) >>
    [] name = "image_composite" ->
         << SharpCall("toFile", {args.base_image_path, args.overlay_image_path},
                      {args.output_path}) >>
    [] name = "create_solid_color" ->
         << SharpCall("toFile", {}, {args.output_path}) >>
    [] name = "image_draw_circle" ->
         << SharpCall("metadata", {args.input_path}, {}),
            SharpCall("toFile", {args.input_path}, {args.output_path}) >>
    [] name = "image_create_pyramid" ->
         << SharpCall("metadata", {args.input_path}, {}) >> \o
         [level \in 1..Levels(args) |->
            SharpCall("toFile", {args.input_path},
                      {LevelPath(args.output_dir, level - 1)})]
    [] name \in WasmCases -> << >>
    [] OTHER ->
         << SharpCall("toFile", {args.input_path}, {args.output_path}) >>

\* The Sharp calls the catch block of a wasm-vips case awaits, in order.
AltPlan(name, args) ==
  CASE name \in { "image_draw_line", "image_flood_fill" } ->
         << SharpCall("metadata", {args.input_path}, {}),
            SharpCall("toFile", {args.input_path}, {args.output_path}) >>
    [] name = "image_advanced_stats" ->
         << SharpCall("metadata", {args.input_path}, {}),
            SharpCall("stats", {args.input_path}, {}) >>
    [] name = "image_texture_analysis" ->
         << SharpCall("stats", {args.input_path}, {}),
            SharpCall("metadata", {args.input_path}, {}) >>
    [] OTHER ->
         << SharpCall("toFile", {args.input_path}, {args.output_path}) >>

\* image.jpeg({ quality: quality || 80 }) and its siblings: the options
\* Sharp is given, and Sharp's own synchronous check of them.
EffectiveQuality(args) ==
  IF Has(args, "quality") /\ args.quality # 0 THEN args.quality ELSE DefaultQuality

ConvertOptionsThrow(args) ==
  /\ Has(args, "format")
  /\ args.format \in { "jpeg", "png", "webp", "tiff", "avif", "heif" }
  /\ (EffectiveQuality(args) < 1 \/ EffectiveQuality(args) > 100)

(***************************************************************************)
(* The text of a successful result.  Interpolated values the model does    *)
(* not carry stay in the literal as written in the source; the emoji and   *)
(* blank that open the texts of the wasm-vips cases are left out.          *)
(***************************************************************************)
MainLiteral(name) ==
  CASE name = "image_info" -> "JSON.stringify(info, null, 2)"
    [] name = "image_resize" -> "Image resized successfully: "
    [] name = "image_crop" -> "Image cropped successfully: "
    [] name = "image_rotate" -> "Image rotated by ${angle} degrees: "
    [] name = "image_flip" -> "Image flipped ${direction}ly: "
    [] name = "image_blur" -> "Image blurred with sigma ${sigma}: "
    [] name = "image_sharpen" -> "Image sharpened: "
    [] name = "image_adjust_brightness" -> "Image brightness adjusted by ${brightness}: "
    [] name = "image_adjust_contrast" -> "Image contrast adjusted by ${contrast}: "
    [] name = "image_adjust_saturation" -> "Image saturation adjusted by ${saturation}: "
    [] name = "image_grayscale" -> "Image converted to grayscale: "
    [] name = "image_composite" -> "Images composited with ${blend} blend mode: "
    [] name = "image_thumbnail" -> "Thumbnail created (${size}px): "
    [] name = "image_extract_channel" -> "Channel ${channel} extracted: "
    [] name = "image_histogram" -> "JSON.stringify({ channels, isOpaque, entropy, dominantColor }, null, 2)"
    [] name = "create_solid_color" -> "Solid color image created (${width}x${height}, ${color}): "
    [] name = "image_morphology" -> "Morphological ${operation} applied (${iterations} iterations, ${kernel_size}x${kernel_size} kernel): "
    [] name = "image_draw_line" -> "Line drawn from (${x1},${y1}) to (${x2},${y2}) with color ${color}: "
    [] name = "image_draw_circle" -> "${fill ? 'Filled ' : ''}Circle drawn at (${x},${y}) radius ${radius}: "
    [] name = "image_edge_detection" -> "${method} edge detection applied: "
    [] name = "image_advanced_stats" -> "Advanced Statistics (wasm-vips):\n${JSON.stringify(stats, null, 2)}"
    [] name = "image_fft" -> "${inverse ? 'Inverse ' : ''}FFT applied successfully: "
    [] name = "image_custom_convolution" -> "Custom convolution applied (${kernel.length}x${kernel[0].length} kernel): "
    [] name = "image_colorspace_convert" -> "Image converted to ${space} color space: "
    [] name = "image_add_noise" -> "${noise_type} noise added (amount: ${amount}): "
    [] name = "image_perspective_transform" -> "Perspective transformation applied: "
    [] name = "image_texture_analysis" -> "Texture Analysis Results:\n${JSON.stringify(stats, null, 2)}"
    [] name = "image_flood_fill" -> "Flood fill applied at (${x},${y}) with color ${fill_color}: "
    [] OTHER -> "Image pyramid created with ${levels} levels:\n"

\* The text a case returns from its main path.
MainText(name, args) ==
  CASE name = "image_convert" ->
         << "Image converted to " >> \o Interpolate(args, "format") \o << ": " >>
           \o args.output_path
    [] name \in NoOutputCases -> << MainLiteral(name) >>
    [] OTHER -> << MainLiteral(name) >> \o args.output_path

\* `Image pyramid created with ${levels} levels:\n${JSON.stringify(pyramidFiles, null, 2)}`:
\* of each entry the text keeps the file name, in array order.
PyramidText(pyramidFiles) ==
  << MainLiteral("image_create_pyramid") >> \o
  [i \in 1..Len(pyramidFiles) |-> pyramidFiles[i].path[Len(pyramidFiles[i].path)]]

\* The locals of the pyramid case once metadata() has resolved.
PyramidLocals ==
  [currentWidth |-> [num |-> SourceWidth, den |-> 1],
   currentHeight |-> [num |-> SourceHeight, den |-> 1],
   pyramidFiles |-> << >>]

\* A loop body that floors the running size as it rescales it.
PyramidPush_Floored(locals, args, outputPath) ==
  LET factor == IF Has(args, "scale_factor") THEN args.scale_factor
                ELSE DefaultScale
  IN [currentWidth |-> [num |-> Floor(Times(locals.currentWidth, factor)), den |-> 1],
      currentHeight |-> [num |-> Floor(Times(locals.currentHeight, factor)), den |-> 1],
      pyramidFiles |->
        Append(locals.pyramidFiles,
               [level |-> Len(locals.pyramidFiles),
                path |-> outputPath,
                dimensions |-> << Floor(locals.currentWidth),
                                  Floor(locals.currentHeight) >>])]

\* The loop body after toFile(outputPath) has resolved: pyramidFiles.push
\* and the rescaling of the running size.
PyramidPush(locals, args, outputPath) ==
  LET factor == IF Has(args, "scale_factor") THEN args.scale_factor
                ELSE DefaultScale
  IN [currentWidth |-> Times(locals.currentWidth, factor),
      currentHeight |-> Times(locals.currentHeight, factor),
      pyramidFiles |->
        Append(locals.pyramidFiles,
               [level |-> Len(locals.pyramidFiles),
                path |-> outputPath,
                dimensions |-> << Floor(locals.currentWidth),
                                  Floor(locals.currentHeight) >>])]

\* .resize(Math.floor(currentWidth), Math.floor(currentHeight)): Sharp
\* throws at once for a size that is not a positive integer.
ResizeThrows(locals) ==
  Floor(locals.currentWidth) < 1 \/ Floor(locals.currentHeight) < 1

AltLiteral(name) ==
  CASE name = "image_morphology" -> "Morphological ${operation} applied (Sharp fallback): "
    [] name = "image_draw_line" -> "Line drawn from (${x1},${y1}) to (${x2},${y2}) (Sharp SVG): "
    [] name = "image_edge_detection" -> "Edge detection applied (Sharp fallback): "
    [] name = "image_advanced_stats" -> "Basic Statistics (Sharp):\n${JSON.stringify({ metadata, stats }, null, 2)}"
    [] name = "image_fft" -> "Edge enhancement applied (FFT fallback): "
    [] name = "image_custom_convolution" -> "Custom convolution applied (Sharp fallback): "
    [] name = "image_colorspace_convert" -> "Color space conversion applied (Sharp approximation): "
    [] name = "image_add_noise" -> "Noise approximation applied (Sharp fallback): "
    [] name = "image_perspective_transform" -> "Rotation applied (perspective fallback): "
    [] name = "image_texture_analysis" -> "Basic Texture Analysis (Sharp):\n${JSON.stringify(textureStats, null, 2)}"
    [] OTHER -> "Circle overlay applied (flood fill approximation): "

\* The text the catch block of a wasm-vips case returns.
AltText(name, args) ==
  IF name \in NoOutputCases THEN << AltLiteral(name) >>
  ELSE << AltLiteral(name) >> \o args.output_path

(***************************************************************************)
(* What a case asks of the library: the operations it chains on the input  *)
(* image, in order, before the file is written.                            *)
(***************************************************************************)
\* kernel_size = 3, iterations = 1
DefaultKernelSize == 3

DefaultIterations == 1

\* Array(kernel_size).fill(null).map(() => Array(kernel_size).fill(1))
OnesKernel(size) == [i \in 1..size |-> [j \in 1..size |-> 1]]

\* One pass of the switch (operation) inside the wasm-vips loop.
MorphPass(operation, kernel) ==
  CASE operation = "erode" -> << [op |-> "morph", mask |-> kernel, morph |-> "erode"] >>
    [] operation = "dilate" -> << [op |-> "morph", mask |-> kernel, morph |-> "dilate"] >>
    [] operation = "opening" ->
         << [op |-> "morph", mask |-> kernel, morph |-> "erode"],
            [op |-> "morph", mask |-> kernel, morph |-> "dilate"] >>
    [] operation = "closing" ->
         << [op |-> "morph", mask |-> kernel, morph |-> "dilate"],
            [op |-> "morph", mask |-> kernel, morph |-> "erode"] >>
    [] OTHER -> << >>

\* for (let i = 0; i < iterations; i++) { switch (operation) ... }
RECURSIVE MorphLoop(_, _, _)
MorphLoop(operation, kernel, iterations) ==
  IF iterations <= 0 THEN << >>
  ELSE MorphPass(operation, kernel) \o MorphLoop(operation, kernel, iterations - 1)

\* The switch (operation) of the Sharp fallback of image_morphology.
SharpMorphology(operation) ==
  CASE operation = "erode" ->
         << [op |-> "blur", sigma |-> "0.5"], [op |-> "threshold", level |-> 120] >>
    [] operation = "dilate" ->
         << [op |-> "blur", sigma |-> "1"], [op |-> "modulate", brightness |-> "1.15"] >>
    [] operation = "opening" ->
         << [op |-> "blur", sigma |-> "0.5"], [op |-> "threshold", level |-> 120],
            [op |-> "blur", sigma |-> "1"] >>
    [] operation = "closing" ->
         << [op |-> "blur", sigma |-> "1"], [op |-> "modulate", brightness |-> "1.15"],
            [op |-> "blur", sigma |-> "0.5"] >>
    [] OTHER -> << >>

\* An object with no property.
EmptyObject == [key \in {} |-> 0]

\* A resizeOptions in which a fit argument wins over maintain_aspect_ratio.
ResizeOptions_FitWins(args) ==
  [fit |-> IF Has(args, "fit") THEN args.fit
           ELSE IF Has(args, "maintain_aspect_ratio") /\ ~args.maintain_aspect_ratio
             THEN "fill"
           ELSE "cover"]
    @@ (IF Has(args, "width") /\ args.width # 0
          THEN [width |-> args.width] ELSE EmptyObject)
    @@ (IF Has(args, "height") /\ args.height # 0
          THEN [height |-> args.height] ELSE EmptyObject)

\* const resizeOptions = { fit }; if (width) ...; if (height) ...;
\* if (!maintain_aspect_ratio) resizeOptions.fit = 'fill';
\* with the defaults maintain_aspect_ratio = true and fit = 'cover'.
ResizeOptions(args) ==
  [fit |-> IF Has(args, "maintain_aspect_ratio") /\ ~args.maintain_aspect_ratio
             THEN "fill"
           ELSE IF Has(args, "fit") THEN args.fit
           ELSE "cover"]
    @@ (IF Has(args, "width") /\ args.width # 0
          THEN [width |-> args.width] ELSE EmptyObject)
    @@ (IF Has(args, "height") /\ args.height # 0
          THEN [height |-> args.height] ELSE EmptyObject)

\* The operations a Sharp case chains on its main path before toFile.
MainPipeline(name, args) ==
  CASE name = "image_resize" ->
         << [op |-> "resize", options |-> ResizeOptions(args)] >>
    [] OTHER -> << >>

\* switch (method) of image_edge_detection: the kernel of a method that has
\* a case, as the rows of the matrix.
EdgeKernel(method) ==
  CASE method = "sobel" -> << << -1, 0, 1 >>, << -2, 0, 2 >>, << -1, 0, 1 >> >>
    [] method = "prewitt" -> << << -1, 0, 1 >>, << -1, 0, 1 >>, << -1, 0, 1 >> >>
    [] method = "roberts" -> << << 1, 0 >>, << 0, -1 >> >>
    [] method = "laplacian" -> << << 0, -1, 0 >>, << -1, 4, -1 >>, << 0, -1, 0 >> >>

\* convolve({ width: 3, height: 3, kernel: [-1, -1, -1, -1, 8, -1, -1, -1, -1] })
\* in the Sharp fallback of image_edge_detection, as the rows of the matrix.
SharpEdgeKernel == << << -1, -1, -1 >>, << -1, 8, -1 >>, << -1, -1, -1 >> >>

\* The operations the try block of a wasm-vips case chains before writeToFile.
WasmPipeline(name, args) ==
  CASE name = "image_morphology" ->
         MorphLoop(IF Has(args, "operation") THEN args.operation ELSE "undefined",
                   OnesKernel(IF Has(args, "kernel_size") THEN args.kernel_size
                              ELSE DefaultKernelSize),
                   IF Has(args, "iterations") THEN args.iterations
                   ELSE DefaultIterations)
    [] name = "image_edge_detection" /\ ~InnerSwitchThrows(name, args) ->
         << [op |-> "conv", kernel |-> EdgeKernel(args.method)] >>
    [] OTHER -> << >>

\* The operations the catch block of a wasm-vips case chains before toFile.
AltPipeline(name, args) ==
  CASE name = "image_morphology" ->
         SharpMorphology(IF Has(args, "operation") THEN args.operation
                         ELSE "undefined")
    [] name = "image_edge_detection" ->
         << [op |-> "grayscale"], [op |-> "convolve", kernel |-> SharpEdgeKernel] >>
    [] OTHER -> << >>

(***************************************************************************)
(* State.                                                                  *)
(***************************************************************************)
VARIABLES
  server,       \* which server of the repository this process runs
  tools,        \* const tools: the descriptor list the listing handler returns
  vips,         \* let vips: 0 is null, n > 0 the n-th instance Vips() made
  vipsCreated,  \* how many times Vips() has resolved with a new instance
  wasm,         \* the wasm-vips build of this run: "unavailable" (Vips()
                \* rejects), "limited" (it loads, the operations throw), "full"
  fs,           \* the filesystem: [files, dirs, images]
  calls,        \* the bag of handler invocations the event loop holds: the
                \* ones suspended at an await and the ones that have returned
                \* and whose result the SDK has yet to write out
  listings      \* << >>, or << the first tools/list result, the latest one >>

vars == << server, tools, vips, vipsCreated, wasm, fs, calls, listings >>

\* How many tools/call requests the client keeps unanswered at once.
MaxInFlight == 2

\* A name that is no case of the dispatcher (it is a tool of the
\* repository's wasm-vips-only server, src/unnamed/part_001).
UnknownNames == { "image_convolution" }

\* The names the client calls while other calls are in flight: one case of
\* each shape the dispatcher has (Sharp without output, Sharp with output,
\* two inputs, no input, wasm-vips with and without output, the pyramid
\* loop) and a name that is no case.
CalledNames ==
  { "image_info", "image_convert", "image_composite", "create_solid_color",
    "image_morphology", "image_advanced_stats", "image_create_pyramid",
    "image_histogram" }
    \cup UnknownNames

\* Every name the tool listing advertises, and a name that is no case.
CatalogNames == { ToolNames[i] : i \in DOMAIN ToolNames } \cup UnknownNames

\* The argument objects the client sends with a name: the input exists or
\* is missing, the output directory can be made or is blocked by a file.
\* Of image_convert every property is carried; of the other tools the paths
\* and the properties a branch of the case reads are, and the remaining
\* arguments are sent with values the libraries accept.
ArgChoices(name) ==
  CASE name = "image_info" ->
         { [image_path |-> InPng], [image_path |-> MissingPng] }
    [] name = "image_convert" ->
         { [input_path |-> InPng, output_path |-> OutPng, format |-> "jpeg"],
           [input_path |-> MissingPng, output_path |-> OutPng, format |-> "jpeg"],
           [input_path |-> InPng, output_path |-> OutPng, format |-> "jpeg",
            quality |-> 0],
           [input_path |-> InPng, output_path |-> OutPng, format |-> "jpeg",
            quality |-> 500],
           [input_path |-> InPng, output_path |-> OutPng, format |-> "bmp"],
           [input_path |-> InPng, format |-> "jpeg"] }
    [] name = "image_composite" ->
         { [base_image_path |-> InPng, overlay_image_path |-> InPng,
            output_path |-> OutPng],
           [base_image_path |-> MissingPng, overlay_image_path |-> InPng,
            output_path |-> OutPng],
           [base_image_path |-> InPng, overlay_image_path |-> MissingPng,
            output_path |-> OutPng] }
    [] name = "create_solid_color" ->
         { [output_path |-> OutPng], [output_path |-> BlockedPng] }
    [] name = "image_create_pyramid" ->
         { [input_path |-> InPng, output_dir |-> PyramidDir],
           [input_path |-> MissingPng, output_dir |-> PyramidDir] }
    [] name = "image_edge_detection" ->
         { [input_path |-> InPng, output_path |-> OutPng, method |-> "sobel"],
           [input_path |-> InPng, output_path |-> OutPng, method |-> "laplacian"],
           [input_path |-> InPng, output_path |-> OutPng, method |-> "canny"],
           [input_path |-> MissingPng, output_path |-> OutPng, method |-> "sobel"],
           [input_path |-> InPng, output_path |-> BlockedPng, method |-> "sobel"] }
    [] name = "image_add_noise" ->
         { [input_path |-> InPng, output_path |-> OutPng, noise_type |-> "gaussian"],
           [input_path |-> InPng, output_path |-> OutPng, noise_type |-> "poisson"],
           [input_path |-> MissingPng, output_path |-> OutPng, noise_type |-> "gaussian"],
           [input_path |-> InPng, output_path |-> BlockedPng, noise_type |-> "gaussian"] }
    [] name = "image_morphology" ->
         { [input_path |-> InPng, output_path |-> OutPng, operation |-> "erode"],
           [input_path |-> MissingPng, output_path |-> OutPng, operation |-> "erode"],
           [input_path |-> InPng, output_path |-> BlockedPng, operation |-> "erode"] }
    [] name = "image_histogram" ->
         { [input_path |-> InPng], [input_path |-> MissingPng],
           [input_path |-> InPng, bins |-> 16],
           [input_path |-> InPng, bins |-> 64] }
    [] name \in NoOutputCases ->
         { [input_path |-> InPng], [input_path |-> MissingPng] }
    [] OTHER ->
         { [input_path |-> InPng, output_path |-> OutPng],
           [input_path |-> MissingPng, output_path |-> OutPng],
           [input_path |-> InPng, output_path |-> BlockedPng] }

\* More argument objects, sent when calls are made one at a time: the
\* properties that decide what a case asks of the library.
DetailChoices(name) ==
  CASE name = "image_create_pyramid" ->
         { [input_path |-> InPng, output_dir |-> TilesDir],
           [input_path |-> InPng, output_dir |-> TilesDir, levels |-> 2],
           [input_path |-> InPng, output_dir |-> TilesDir, levels |-> 3,
            scale_factor |-> [num |-> 2, den |-> 3]],
           [input_path |-> InPng, output_dir |-> TilesDir, levels |-> 6] }
    [] name = "image_morphology" ->
         { [input_path |-> InPng, output_path |-> OutPng, operation |-> "opening",
            kernel_size |-> 5, iterations |-> 2],
           [input_path |-> InPng, output_path |-> OutPng, operation |-> "closing",
            iterations |-> 3],
           [input_path |-> InPng, output_path |-> OutPng, operation |-> "dilate",
            kernel_size |-> 2] }
    [] name = "image_resize" ->
         { [input_path |-> InPng, output_path |-> OutPng] @@ w @@ h @@ m @@ t :
             w \in { EmptyObject, [width |-> 0], [width |-> 8] },
             h \in { EmptyObject, [height |-> 4] },
             m \in { EmptyObject, [maintain_aspect_ratio |-> TRUE],
                     [maintain_aspect_ratio |-> FALSE] },
             t \in { EmptyObject, [fit |-> "contain"] } }
    [] OTHER -> { }

\* request.params: the arguments member is optional in the protocol.
ParamsChoices(name) ==
  { [name |-> name] } \cup
  { [name |-> name, arguments |-> a] : a \in ArgChoices(name) }

\* The invocations that have started and not yet returned.
Running == { c \in BagToSet(calls) : c.pc # "done" }

NumRunning == BagCardinality(calls) - BagCardinality([c \in BagToSet(calls) \ Running |-> calls[c]])

\* The bag with one copy of invocation c replaced by d.
Replace(c, d) == (calls (-) SetToBag({c})) (+) SetToBag({d})

(***************************************************************************)
(* The tool-listing handler.                                               *)
(***************************************************************************)
\* The descriptor of a tool: its name and, for image_convert, its schema.
Descriptor(name) ==
  [name |-> name,
   inputSchema |-> IF name = "image_convert" THEN ConvertSchema
                   ELSE [type |-> "object"]]

\* A listing that leaves the wasm-vips tools out until the handle exists.
ListToolsResult_Loaded(t) ==
  [tools |-> SelectSeq(t, LAMBDA d : vips # 0 \/ d.name \notin WasmCases)]

\* return { tools }
ListToolsResult(t) == [tools |-> t]

\* A tools/list request is answered.  Beside the result the model keeps the
\* value vips had at that moment, which tells an early listing from a late one.
ListTools ==
  /\ LET entry == [result |-> ListToolsResult(tools), vips |-> vips]
     IN listings' = IF listings = << >> THEN << entry, entry >>
                    ELSE << listings[1], entry >>
  /\ UNCHANGED << server, tools, vips, vipsCreated, wasm, fs, calls >>

(***************************************************************************)
(* The tool-invocation handler, one run-to-completion segment at a time.   *)
(* A segment maps the invocation c and the filesystem f to                 *)
(* [call, fs]: the invocation suspended at its next await or done.         *)
(***************************************************************************)
Step(c, f) == [call |-> c, fs |-> f]

Log(c, event) == [c EXCEPT !.trace = Append(@, event)]

\* A case that ends without a return statement.
Returned_Nothing(c, res) == [c EXCEPT !.pc = "done", !.plan = << >>]

\* return <result> from a case.
Returned(c, res) ==
  [c EXCEPT !.pc = "done", !.plan = << >>, !.results = Append(@, res)]

\* An exception reaches the handler's top-level catch, which returns.
Caught(c, e) ==
  [c EXCEPT !.pc = "done", !.plan = << >>, !.raised = Append(@, e),
            !.results = Append(@, TopLevelCatch(e))]

\* The catch block of a wasm-vips case: the Sharp alternate starts.
StartAlt(c, f) ==
  Step([Log(c, "alt") EXCEPT
          !.pc = "alt",
          !.plan = AltPlan(c.params.name, c.params.arguments),
          !.locals = AltPipeline(c.params.name, c.params.arguments)], f)

\* A try block that does not return after writeToFile.
WasmAttempt_NoReturn(c, f) ==
  LET name == c.params.name
      args == c.params.arguments
      ok == /\ wasm = "full"
            /\ args.input_path \in f.images
            /\ ~InnerSwitchThrows(name, args)
            /\ name \in NoOutputCases \/ CanWrite(f, args.output_path)
  IN IF ok
       THEN StartAlt(Log(c, "wasm:ok"),
                     IF name \in NoOutputCases THEN f
                     ELSE WriteEffect(f, args.output_path))
       ELSE StartAlt(Log(c, "wasm:throw"), f)

\* The try block of a wasm-vips case once initVips has resolved: the
\* synchronous wasm-vips calls, writeToFile and the return.
WasmAttempt(c, f) ==
  LET name == c.params.name
      args == c.params.arguments
      ok == /\ wasm = "full"
            /\ args.input_path \in f.images
            /\ ~InnerSwitchThrows(name, args)
            /\ name \in NoOutputCases \/ CanWrite(f, args.output_path)
  IN IF ok
       THEN Step(Returned([Log(c, "wasm:ok") EXCEPT
                             !.locals = WasmPipeline(name, args)],
                          Success(MainText(name, args))),
                 IF name \in NoOutputCases THEN f
                 ELSE WriteEffect(f, args.output_path))
       ELSE StartAlt(Log(c, "wasm:throw"), f)

\* An initVips that resolves with nothing once the handle exists.
EnterTry_Reinit(c, f) ==
  IF vips = 0
    THEN Step([Log(Log(c, "try"), "Vips") EXCEPT !.pc = "vips"], f)
    ELSE StartAlt(Log(Log(c, "try"), "wasm:throw"), f)

\* try { await initVips(); ... : initVips calls Vips() only while vips is null.
EnterTry(c, f) ==
  IF vips = 0
    THEN Step([Log(Log(c, "try"), "Vips") EXCEPT !.pc = "vips"], f)
    ELSE WasmAttempt(Log(c, "try"), f)

\* What a case does after its checks and ensureDirectoryExists.
Proceed(c, f) ==
  LET name == c.params.name
      args == c.params.arguments
  IN CASE name \in WasmCases -> EnterTry(c, f)
       [] name = "image_convert" /\ ConvertOptionsThrow(args) ->
            Step(Caught(Log(c, "sharp"),
                   Error(<< "Expected integer between 1 and 100 for quality but received ${quality}" >>)),
                 f)
       [] OTHER ->
            Step([Log(c, "sharp") EXCEPT
                    !.pc = "sharp", !.plan = MainPlan(name, args),
                    !.locals = MainPipeline(name, args)], f)

\* The index of the first existsSync check of the case that fails (0: none).
FirstMissing(name, args, f) ==
  LET checks == InputChecks(name)
      failing == { i \in 1..Len(checks) : ~ArgExists(f, args, checks[i].key) }
  IN IF failing = {} THEN 0
     ELSE CHOOSE i \in failing : \A j \in failing : i <= j

\* The body of the case the name selects, to its first await (or its return).
CaseBody(c, f) ==
  LET name == c.params.name IN
  IF ~Has(c.params, "arguments")
    THEN Step(Caught(c, TypeError(<< "Cannot destructure property '",
                                    FirstKey(name),
                                    "' of 'args' as it is undefined." >>)), f)
  ELSE
    LET args == c.params.arguments
        miss == FirstMissing(name, args, f)
    IN IF miss # 0
         THEN Step(Caught(c, Error(<< InputChecks(name)[miss].msg >> \o
                                    InterpolatePath(args, InputChecks(name)[miss].key))),
                   f)
       ELSE IF name \in NoOutputCases
         THEN Proceed(c, f)
       ELSE IF ~Has(args, OutputKey(name))
         \* ensureDirectoryExists: path.dirname(undefined) throws before the try
         THEN Step(Caught(c, TypeError(<< "The \"path\" argument must be of type string. Received undefined" >>)),
                   f)
       ELSE Step([Log(c, "mkdir") EXCEPT !.pc = "mkdir"], f)

\* A dispatcher that reads the arguments before it looks at the name.
Begin_ArgsFirst(c, f) ==
  IF Has(c.params, "arguments") /\ c.params.name \notin CaseLabels
    THEN Step(Caught(c, Error(<< "Unknown tool: ", c.params.name >>)), f)
    ELSE CaseBody(c, f)

\* The handler from its first line to its first await (or its return):
\* switch (name), with default: throw new Error(`Unknown tool: ${name}`).
Begin(c, f) ==
  IF c.params.name \notin CaseLabels
    THEN Step(Caught(c, Error(<< "Unknown tool: ", c.params.name >>)), f)
    ELSE CaseBody(c, f)

\* The SDK invokes the handler with request.params.
Invoke(params) ==
  LET c0 == [pc |-> "start", params |-> params, plan |-> << >>,
             trace |-> << >>, results |-> << >>, raised |-> << >>,
             locals |-> << >>]
      next == Begin(c0, fs)
  IN /\ calls' = calls (+) SetToBag({next.call})
     /\ fs' = next.fs
     /\ UNCHANGED << server, tools, vips, vipsCreated, wasm, listings >>

\* A tools/call request arrives while fewer than MaxInFlight are unanswered.
CallTool ==
  /\ BagCardinality(calls) < MaxInFlight
  /\ \E name \in CalledNames : \E params \in ParamsChoices(name) : Invoke(params)

\* A tools/call request for any advertised name arrives at a server that
\* has answered every earlier one.
CallAnyTool ==
  /\ calls = EmptyBag
  /\ \E name \in CatalogNames :
       \E params \in ParamsChoices(name) \cup
                     { [name |-> name, arguments |-> a] : a \in DetailChoices(name) } :
         Invoke(params)

\* ensureDirectoryExists settles: mkdir made the directory, or it rejected
\* and the empty catch swallowed the error.
MkdirDone(c) ==
  /\ c.pc = "mkdir"
  /\ LET dir == Dirname(c.params.arguments[OutputKey(c.params.name)])
         made == IF MkdirOk(fs, dir) THEN MkdirEffect(fs, dir) ELSE fs
         next == Proceed(c, made)
     IN /\ calls' = Replace(c, next.call)
        /\ fs' = next.fs
  /\ UNCHANGED << server, tools, vips, vipsCreated, wasm, listings >>

\* Vips() settles inside initVips: vips = await Vips().
VipsDone(c) ==
  /\ c.pc = "vips"
  /\ IF wasm = "unavailable"
       THEN /\ LET next == StartAlt(Log(c, "Vips:throw"), fs)
               IN /\ calls' = Replace(c, next.call)
                  /\ fs' = next.fs
            /\ UNCHANGED << vips, vipsCreated >>
       ELSE /\ vipsCreated' = vipsCreated + 1
            /\ vips' = vipsCreated + 1
            /\ LET next == WasmAttempt(c, fs)
               IN /\ calls' = Replace(c, next.call)
                  /\ fs' = next.fs
  /\ UNCHANGED << server, tools, wasm, listings >>

\* The pyramid case when one of its Sharp promises has resolved: the
\* locals are set or pushed, and the next resize is called or the text returned.
PyramidContinue(c, call, rest) ==
  LET locals == IF call.op = "metadata" THEN PyramidLocals
                ELSE PyramidPush(c.locals, c.params.arguments,
                                 CHOOSE p \in call.writes : TRUE)
      d == [c EXCEPT !.locals = locals]
  IN IF rest = << >> THEN Returned(d, Success(PyramidText(locals.pyramidFiles)))
     ELSE IF ResizeThrows(locals)
       THEN Caught(d, Error(<< "Failed to create image pyramid: " >> \o
                            String(Error(<< "Expected positive integer for width but received 0" >>))))
     ELSE [d EXCEPT !.plan = rest]

\* The Sharp promise the handler awaits settles.
SharpDone(c) ==
  /\ c.pc \in { "sharp", "alt" }
  /\ LET name == c.params.name
         args == c.params.arguments
         call == Head(c.plan)
         rest == Tail(c.plan)
     IN IF SharpThrows(fs, call)
          THEN /\ calls' = Replace(c,
                     Caught(c, IF name = "image_create_pyramid"
                                 THEN Error(<< "Failed to create image pyramid: " >>
                                            \o String(SharpError(fs, call)))
                                 ELSE SharpError(fs, call)))
               /\ fs' = fs
          ELSE /\ fs' = SharpEffect(fs, call)
               /\ calls' = Replace(c,
                     IF name = "image_create_pyramid"
                       THEN PyramidContinue(c, call, rest)
                     ELSE IF rest # << >> THEN [c EXCEPT !.plan = rest]
                     ELSE Returned(c, Success(IF c.pc = "sharp"
                                                THEN MainText(name, args)
                                                ELSE AltText(name, args))))
  /\ UNCHANGED << server, tools, vips, vipsCreated, wasm, listings >>

\* The SDK has written the handler's result to the transport.
Deliver(c) ==
  /\ c.pc = "done"
  /\ calls' = calls (-) SetToBag({c})
  /\ UNCHANGED << server, tools, vips, vipsCreated, wasm, fs, listings >>

Init ==
  /\ server = "v1.2.0"
  /\ tools = [i \in 1..Len(ToolNames) |-> Descriptor(ToolNames[i])]
  /\ vips = 0
  /\ vipsCreated = 0
  /\ wasm \in { "unavailable", "limited", "full" }
  /\ fs = [files |-> {InPng}, dirs |-> {TilesDir}, images |-> {InPng}]
  /\ calls = EmptyBag
  /\ listings = << >>

Next ==
  \/ CallTool
  \/ \E c \in BagToSet(calls) : MkdirDone(c)
  \/ \E c \in BagToSet(calls) : VipsDone(c)
  \/ \E c \in BagToSet(calls) : SharpDone(c)
  \/ \E c \in BagToSet(calls) : Deliver(c)

\* Concurrent tool calls over the called names.
Spec == Init /\ [][Next]_vars

CatalogNext ==
  \/ ListTools
  \/ CallAnyTool
  \/ \E c \in BagToSet(calls) : MkdirDone(c)
  \/ \E c \in BagToSet(calls) : VipsDone(c)
  \/ \E c \in BagToSet(calls) : SharpDone(c)
  \/ \E c \in BagToSet(calls) : Deliver(c)

\* Tool listings and tool calls over the whole catalog, one call at a time.
CatalogSpec == Init /\ [][CatalogNext]_vars

(***************************************************************************)
(* The three servers of the repository: v1.2.0 and v1.0.0 in               *)
(* src/src/index.ts and the wasm-vips-only v1.1.0 in src/unnamed/part_001. *)
(* Of the other two servers the model follows a call up to the switch of   *)
(* the handler: which case, if any, the name selects.                      *)
(***************************************************************************)
Variants == { "v1.2.0", "v1.0.0", "wasm-only" }

\* const tools: Tool[] = [...] of each server: the names, in array order.
ToolNamesOf(variant) ==
  CASE variant = "v1.2.0" -> ToolNames
    [] variant = "v1.0.0" ->
         << "image_info", "image_resize", "image_convert", "image_crop",
            "image_rotate", "image_flip", "image_blur", "image_sharpen",
            "image_adjust_brightness", "image_adjust_contrast",
            "image_adjust_saturation", "image_grayscale", "image_composite",
            "image_thumbnail", "image_extract_channel", "image_histogram",
            "create_solid_color" >>
    [] OTHER ->
         << "image_info", "image_resize", "image_convert", "image_morphology",
            "image_fft", "image_draw_line", "image_draw_circle",
            "image_draw_rect", "image_convolution", "image_edge_detection",
            "image_colorspace", "image_stats", "image_histogram", "image_crop",
            "image_rotate", "image_flip" >>

\* switch (name) of each server: the labels of its cases.
CaseLabelsOf(variant) ==
  CASE variant = "v1.2.0" -> CaseLabels
    [] variant = "v1.0.0" ->
         { "image_info", "image_resize", "image_convert", "image_crop",
           "image_rotate", "image_flip", "image_blur", "image_sharpen",
           "image_adjust_brightness", "image_adjust_contrast",
           "image_adjust_saturation", "image_grayscale", "image_composite",
           "image_thumbnail", "image_extract_channel", "image_histogram",
           "create_solid_color" }
    [] OTHER ->
         { "image_info", "image_resize", "image_convert", "image_morphology",
           "image_fft", "image_draw_line", "image_draw_circle",
           "image_convolution", "image_edge_detection", "image_colorspace",
           "image_stats", "image_crop", "image_rotate", "image_flip" }

\* A name none of the three servers lists or has a case for.
UnlistedName == "image_emboss"

\* switch (name): the case of the name is entered, or default throws.
Switch(c) ==
  IF c.params.name \notin CaseLabelsOf(server)
    THEN Caught(c, Error(<< "Unknown tool: ", c.params.name >>))
    ELSE [Log(c, "case") EXCEPT !.pc = "case"]

\* A tools/call request for a listed name, or for the unlisted one, arrives
\* at a server that has answered every earlier one.  The wasm-vips-only
\* handler awaits initVips() before its switch.
CallListedTool ==
  /\ calls = EmptyBag
  /\ \E name \in { tools[i].name : i \in DOMAIN tools } \cup { UnlistedName } :
       LET c0 == [pc |-> "start", params |-> [name |-> name, arguments |-> EmptyObject],
                  plan |-> << >>, trace |-> << >>, results |-> << >>,
                  raised |-> << >>, locals |-> << >>]
       IN calls' = SetToBag({ IF server = "wasm-only" /\ vips = 0
                                THEN [Log(c0, "Vips") EXCEPT !.pc = "vips"]
                                ELSE Switch(c0) })
  /\ UNCHANGED << server, tools, vips, vipsCreated, wasm, fs, listings >>

\* Vips() settles in the wasm-vips-only handler: a rejection goes to the
\* top-level catch, otherwise the handle is set and the switch runs.
InitVipsDone(c) ==
  /\ c.pc = "vips"
  /\ IF wasm = "unavailable"
       THEN /\ calls' = Replace(c, Caught(Log(c, "Vips:throw"),
                                          Error(<< "wasm-vips failed to load" >>)))
            /\ UNCHANGED << vips, vipsCreated >>
       ELSE /\ vipsCreated' = vipsCreated + 1
            /\ vips' = vipsCreated + 1
            /\ calls' = Replace(c, Switch(c))
  /\ UNCHANGED << server, tools, wasm, fs, listings >>

\* The body of the selected case runs and its result is written out.
CaseDone(c) ==
  /\ c.pc = "case"
  /\ calls' = calls (-) SetToBag({c})
  /\ UNCHANGED << server, tools, vips, vipsCreated, wasm, fs, listings >>

VariantInit ==
  /\ server \in Variants
  /\ tools = [i \in 1..Len(ToolNamesOf(server)) |-> Descriptor(ToolNamesOf(server)[i])]
  /\ vips = 0
  /\ vipsCreated = 0
  /\ wasm \in { "unavailable", "limited", "full" }
  /\ fs = [files |-> {InPng}, dirs |-> {TilesDir}, images |-> {InPng}]
  /\ calls = EmptyBag
  /\ listings = << >>

VariantNext ==
  \/ ListTools
  \/ CallListedTool
  \/ \E c \in BagToSet(calls) : InitVipsDone(c)
  \/ \E c \in BagToSet(calls) : CaseDone(c)
  \/ \E c \in BagToSet(calls) : Deliver(c)

\* Any of the three servers, followed up to the switch of its handler.
VariantSpec == VariantInit /\ [][VariantNext]_vars

(***************************************************************************)
(* Scheduling.  The event loop runs the continuation of every promise that *)
(* settles, so each suspended invocation is resumed; the library calls are *)
(* taken to settle.                                                        *)
(***************************************************************************)
AllParams == UNION { ParamsChoices(name) : name \in CalledNames }

Resume(params) ==
  \E c \in BagToSet(calls) :
    c.params = params /\ (MkdirDone(c) \/ VipsDone(c) \/ SharpDone(c))

FairSpec == Spec /\ \A params \in AllParams : WF_vars(Resume(params))

(***************************************************************************)
(* Properties.                                                             *)
(***************************************************************************)
\* C1: an exception that reaches the handler's top-level catch becomes the
\* handler's one result, whose single text item is "Error: " followed by the
\* exception's message and whose isError is true; no invocation ends by
\* passing an exception on to the SDK.
C1_ExceptionBecomesErrorResult ==
  \A c \in BagToSet(calls) :
    /\ \A i \in 1..Len(c.results) : IsResult(c.results[i])
    /\ c.raised # << >> =>
         /\ c.pc = "done"
         /\ c.results =
              << [content |-> << [type |-> "text",
                                  text |-> << "Error: " >> \o c.raised[1].message] >>,
                  isError |-> TRUE] >>

\* A Sharp call rejected and the handler answered with its message.
C1_Witness ==
  \E c \in BagToSet(calls) :
    /\ c.raised = << Error(<< "unable to open for write" >>) >>
    /\ "sharp" \in { c.trace[i] : i \in DOMAIN c.trace }
    /\ TextOf(c.results[1]) = << "Error: ", "unable to open for write" >>

\* C2: every invocation of the handler returns exactly one result object:
\* never more than one, one once it has returned, and under FairSpec every
\* request that is being handled is eventually answered.
C2_ExactlyOneResponse ==
  /\ [](\A c \in BagToSet(calls) :
          /\ Len(c.results) <= 1
          /\ (c.pc = "done") <=> (Len(c.results) = 1)
          /\ \A i \in 1..Len(c.results) : IsResult(c.results[i]))
  /\ \A params \in AllParams :
       (\E c \in BagToSet(calls) : c.params = params /\ c.pc # "done")
         ~> (\E c \in BagToSet(calls) :
               c.params = params /\ c.pc = "done" /\ Len(c.results) = 1)

\* Two invocations that went through their awaits have both returned, one
\* with a success and one with an error.
C2_Witness ==
  \E c, d \in BagToSet(calls) :
    /\ c.pc = "done" /\ d.pc = "done"
    /\ Len(c.trace) >= 2 /\ Len(d.trace) >= 2
    /\ Len(c.results) = 1 /\ ~IsErrorResult(c.results[1])
    /\ Len(d.results) = 1 /\ IsErrorResult(d.results[1])

\* C3: Vips() resolves with a new instance at most once per process and the
\* handle, once set, is never replaced by another instance.
C3_HandleCreatedOnce == vipsCreated <= 1 /\ vips \in { 0, 1 }

\* C4: in a wasm-vips case the try block is entered once; the Sharp
\* alternate runs exactly once when the wasm-vips attempt (Vips() included)
\* threw and never when it succeeded; and when the alternate's calls all
\* succeed the result is the alternate's text without isError.
C4_AlternateOnceAfterThrow ==
  \A c \in BagToSet(calls) :
    c.params.name \in WasmCases =>
      LET n(e) == Cardinality({ i \in DOMAIN c.trace : c.trace[i] = e })
          threw == n("wasm:throw") + n("Vips:throw")
      IN /\ n("try") <= 1 /\ n("Vips") <= 1
         /\ n("wasm:ok") + threw <= n("try")
         /\ n("alt") = threw
         /\ n("wasm:ok") > 0 => n("alt") = 0
         /\ (c.pc = "done" /\ n("alt") = 1 /\ c.raised = << >>) =>
              /\ c.results =
                   << Success(AltText(c.params.name, c.params.arguments)) >>
              /\ ~Has(c.results[1], "isError")

\* A wasm-vips operation threw on a loaded build, the alternate wrote the
\* output and the call succeeded.
C4_Witness ==
  \E c \in BagToSet(calls) :
    /\ c.params.name = "image_fft"
    /\ c.trace = << "mkdir", "try", "Vips", "wasm:throw", "alt" >>
    /\ c.pc = "done" /\ c.raised = << >>
    /\ c.params.arguments.output_path \in fs.files

\* C5: an image_convert call whose arguments break the declared schema
\* never reaches a Sharp call and is answered with an error result.
C5_SchemaViolationRejected ==
  \A c \in BagToSet(calls) :
    (c.params.name = "image_convert" /\ ViolatesConvertSchema(c.params)) =>
      /\ "sharp" \notin { c.trace[i] : i \in DOMAIN c.trace }
      /\ c.pc = "done" => IsErrorResult(c.results[1])

\* C6: the latest tools/list result equals the first one.
C6_ListingUnchanged ==
  listings # << >> => listings[2].result = listings[1].result

\* The first listing was served before the wasm-vips handle existed, the
\* latest after tool calls had created it and written a file.
C6_Witness ==
  /\ listings # << >>
  /\ listings[1].vips = 0 /\ listings[2].vips # 0
  /\ OutPng \in fs.files
  /\ Len(listings[2].result.tools) = Len(ToolNames)

\* C7: tool calls leave the descriptor list as it was built, and two
\* invocations with the same request.params return the same result whatever
\* was called before each of them.
C7_ResponseIndependentOfHistory ==
  /\ tools = [i \in 1..Len(ToolNames) |-> Descriptor(ToolNames[i])]
  /\ \A c, d \in BagToSet(calls) :
       (c.pc = "done" /\ d.pc = "done" /\ c.params = d.params) =>
         c.results = d.results

\* Two invocations of a wasm-vips tool with the same params have returned:
\* one created the handle on its way, the other found it.
C7_Witness ==
  \E c, d \in BagToSet(calls) :
    /\ c.pc = "done" /\ d.pc = "done" /\ c.params = d.params
    /\ c.params.name \in WasmCases
    /\ "Vips" \in { c.trace[i] : i \in DOMAIN c.trace }
    /\ "Vips" \notin { d.trace[i] : i \in DOMAIN d.trace }
    /\ "wasm:ok" \in { d.trace[i] : i \in DOMAIN d.trace }

\* C8: at most one invocation is between its start and its return.
C8_NoOverlap == NumRunning <= 1

\* C9: a call of any tool but create_solid_color with an input path that
\* does not exist has returned an error result whose text is "Error: ", the
\* message of that kind of input and the missing path.
C9_MissingInputReported ==
  \A c \in BagToSet(calls) :
    (/\ c.params.name \in { ToolNames[i] : i \in DOMAIN ToolNames }
     /\ c.params.name # "create_solid_color"
     /\ Has(c.params, "arguments")) =>
      LET args == c.params.arguments
          msgs == [image_path |-> "Image file not found: ",
                   input_path |-> "Input image not found: ",
                   base_image_path |-> "Base image not found: ",
                   overlay_image_path |-> "Overlay image not found: "]
          missing == { k \in DOMAIN msgs \cap DOMAIN args :
                         args[k] \notin fs.files \cup fs.dirs }
      IN missing # {} =>
           /\ c.pc = "done" /\ Len(c.results) = 1
           /\ IsErrorResult(c.results[1])
           /\ \E k \in missing :
                TextOf(c.results[1]) = << "Error: ", msgs[k] >> \o args[k]

\* A wasm-vips tool was called with a missing input and answered so.
C9_Witness ==
  \E c \in BagToSet(calls) :
    /\ c.params.name = "image_flood_fill"
    /\ c.results = << [content |-> << [type |-> "text",
                                       text |-> << "Error: ", "Input image not found: ",
                                                   "missing.png" >>] >>,
                       isError |-> TRUE] >>

\* C10: a call whose name is no case of the dispatcher has returned the
\* error result "Error: Unknown tool: <name>" without a mkdir, Sharp or
\* wasm-vips call, and the step that handles it leaves the filesystem as it was.
C10_UnknownToolReported ==
  /\ [](\A c \in BagToSet(calls) :
          c.params.name \notin { ToolNames[i] : i \in DOMAIN ToolNames } =>
            /\ c.pc = "done"
            /\ c.results =
                 << [content |-> << [type |-> "text",
                                     text |-> << "Error: ", "Unknown tool: ",
                                                 c.params.name >>] >>,
                     isError |-> TRUE] >>
            /\ c.trace = << >>)
  /\ [][(\E c \in BagToSet(calls') :
           /\ c \notin BagToSet(calls)
           /\ c.params.name \notin { ToolNames[i] : i \in DOMAIN ToolNames })
        => fs' = fs]_vars

\* Unknown names were called with and without arguments after earlier calls
\* had made a directory and written a file.
C10_Witness ==
  /\ OutPng \in fs.files
  /\ \E c \in BagToSet(calls) :
       /\ c.params.name = "image_convolution"
       /\ c.pc = "done"
       /\ TextOf(c.results[1]) = << "Error: ", "Unknown tool: ", "image_convolution" >>

\* C11: an image_edge_detection call whose method has no case and an
\* image_add_noise call whose noise_type has no case, on an existing input,
\* return the error result that carries "Unknown edge detection method: " or
\* "Unknown noise type: " and the value, never a success.
C11_UnknownMethodReported ==
  \A c \in BagToSet(calls) :
    (/\ c.pc = "done"
     /\ c.params.name \in { "image_edge_detection", "image_add_noise" }
     /\ Has(c.params, "arguments")
     /\ c.params.arguments.input_path = InPng) =>
      LET args == c.params.arguments IN
      /\ (c.params.name = "image_edge_detection"
            /\ args.method \notin { "sobel", "prewitt", "roberts", "laplacian" }) =>
           /\ IsErrorResult(c.results[1])
           /\ TextOf(c.results[1]) =
                << "Error: ", "Unknown edge detection method: ", args.method >>
      /\ (c.params.name = "image_add_noise"
            /\ args.noise_type \notin { "gaussian", "uniform", "salt_pepper" }) =>
           /\ IsErrorResult(c.results[1])
           /\ TextOf(c.results[1]) =
                << "Error: ", "Unknown noise type: ", args.noise_type >>

\* C14: an image_create_pyramid call on an existing input with an
\* output_dir that does not exist yet has made output_dir by the time it
\* returns, and returns a success.
C14_PyramidDirectoryMade ==
  \A c \in BagToSet(calls) :
    (/\ c.params.name = "image_create_pyramid"
     /\ Has(c.params, "arguments")
     /\ c.params.arguments.input_path = InPng
     /\ c.params.arguments.output_dir = PyramidDir
     /\ c.pc = "done") =>
      /\ PyramidDir \in fs.dirs
      /\ ~IsErrorResult(c.results[1])

C16_BinsDecideResult ==
  \A c, d \in BagToSet(calls) :
    (/\ c.params.name = "image_histogram" /\ d.params.name = "image_histogram"
     /\ c.pc = "done" /\ d.pc = "done"
     /\ Has(c.params, "arguments") /\ Has(d.params, "arguments")
     /\ c.params.arguments.input_path = InPng
     /\ d.params.arguments.input_path = InPng
     /\ Has(c.params.arguments, "bins") /\ Has(d.params.arguments, "bins")
     /\ c.params.arguments.bins # d.params.arguments.bins) =>
      c.results # d.results

\* C17: a successful image_morphology call with operation erode, dilate,
\* opening or closing has applied, iterations times (1 when absent), the
\* passes of that operation (opening: erode then dilate; closing: dilate then
\* erode) with the kernel_size x kernel_size all-ones kernel (3 when absent),
\* whichever of the two paths returned.
C17_MorphologyApplied ==
  \A c \in BagToSet(calls) :
    (/\ c.params.name = "image_morphology"
     /\ c.pc = "done"
     /\ ~IsErrorResult(c.results[1])) =>
      LET args == c.params.arguments
          size == IF Has(args, "kernel_size") THEN args.kernel_size ELSE 3
          n == IF Has(args, "iterations") THEN args.iterations ELSE 1
          ones == [i \in 1..size |-> [j \in 1..size |-> 1]]
          pass == CASE args.operation = "erode" -> << "erode" >>
                    [] args.operation = "dilate" -> << "dilate" >>
                    [] args.operation = "opening" -> << "erode", "dilate" >>
                    [] args.operation = "closing" -> << "dilate", "erode" >>
      IN c.locals =
           [i \in 1..(n * Len(pass)) |->
              [op |-> "morph", mask |-> ones,
               morph |-> pass[((i - 1) % Len(pass)) + 1]]]

\* C18: a successful image_edge_detection call with method sobel, prewitt,
\* roberts or laplacian has convolved the image with the kernel of that
\* method and with no other kernel, whichever path returned.
C18_EdgeKernelOfMethod ==
  \A c \in BagToSet(calls) :
    (/\ c.params.name = "image_edge_detection"
     /\ c.pc = "done"
     /\ ~IsErrorResult(c.results[1])
     /\ c.params.arguments.method \in { "sobel", "prewitt", "roberts", "laplacian" }) =>
      LET method == c.params.arguments.method
          kernel == CASE method = "sobel" ->
                           << << -1, 0, 1 >>, << -2, 0, 2 >>, << -1, 0, 1 >> >>
                      [] method = "prewitt" ->
                           << << -1, 0, 1 >>, << -1, 0, 1 >>, << -1, 0, 1 >> >>
                      [] method = "roberts" -> << << 1, 0 >>, << 0, -1 >> >>
                      [] method = "laplacian" ->
                           << << 0, -1, 0 >>, << -1, 4, -1 >>, << 0, -1, 0 >> >>
          convolutions == { i \in DOMAIN c.locals : Has(c.locals[i], "kernel") }
      IN /\ convolutions # {}
         /\ \A i \in convolutions : c.locals[i].kernel = kernel

\* C19: the options image_resize hands to the resizer have fit 'fill' when
\* maintain_aspect_ratio is false, else the fit argument, else 'cover'; and
\* they hold width (height) exactly when the argument was sent and is not 0,
\* with its value.
C19_ResizeOptions ==
  \A c \in BagToSet(calls) :
    (/\ c.params.name = "image_resize"
     /\ "sharp" \in { c.trace[i] : i \in DOMAIN c.trace }) =>
      LET args == c.params.arguments
          options == c.locals[1].options
      IN /\ Len(c.locals) = 1 /\ c.locals[1].op = "resize"
         /\ options.fit =
              IF Has(args, "maintain_aspect_ratio") /\ args.maintain_aspect_ratio = FALSE
                THEN "fill"
              ELSE IF Has(args, "fit") THEN args.fit
              ELSE "cover"
         /\ Has(options, "width") <=> (Has(args, "width") /\ args.width # 0)
         /\ Has(options, "width") => options.width = args.width
         /\ Has(options, "height") <=> (Has(args, "height") /\ args.height # 0)
         /\ Has(options, "height") => options.height = args.height
         /\ DOMAIN options \subseteq { "fit", "width", "height" }

\* A resize with maintain_aspect_ratio false, fit 'contain', width 0 and
\* height 4 has succeeded with the options { fit: 'fill', height: 4 }.
C19_Witness ==
  \E c \in BagToSet(calls) :
    /\ c.params.name = "image_resize"
    /\ c.pc = "done" /\ ~IsErrorResult(c.results[1])
    /\ c.params.arguments =
         [input_path |-> InPng, output_path |-> OutPng, width |-> 0,
          height |-> 4, maintain_aspect_ratio |-> FALSE, fit |-> "contain"]
    /\ c.locals = << [op |-> "resize", options |-> [fit |-> "fill", height |-> 4]] >>

\* C12: every response has exactly one content item, of type text; isError
\* is present, and then true, exactly when an exception reached the
\* top-level catch, so a call whose library calls all succeed is answered
\* without the flag; and the text of a response without the flag, for an
\* operation that takes an output_path, ends with that path.
C12_ResponseShape ==
  \A c \in BagToSet(calls) :
    c.pc = "done" =>
      /\ Len(c.results) = 1
      /\ LET res == c.results[1]
         IN /\ IsResult(res)
            /\ Len(res.content) = 1
            /\ res.content[1].type = "text"
            /\ Has(res, "isError") <=> c.raised # << >>
            /\ Has(res, "isError") => res.isError = TRUE
            /\ ( /\ ~Has(res, "isError")
                 /\ c.params.name \in CaseLabels \ NoOutputCases
                 /\ OutputKey(c.params.name) = "output_path" ) =>
                 LET text == TextOf(res)
                     path == c.params.arguments.output_path
                 IN /\ Len(text) >= Len(path)
                    /\ SubSeq(text, Len(text) - Len(path) + 1, Len(text)) = path

\* A call of a wasm-vips case on an existing input has been answered
\* without the flag from its Sharp alternate, the output file written.
C12_Witness ==
  \E c \in BagToSet(calls) :
    /\ c.pc = "done"
    /\ c.raised = << >>
    /\ c.params.name = "image_fft"
    /\ "alt" \in { c.trace[i] : i \in DOMAIN c.trace }
    /\ c.params.arguments.input_path \in fs.images
    /\ c.params.arguments.output_path \in fs.files
    /\ ~Has(c.results[1], "isError")

\* C13: in each of the three servers the listed names are pairwise
\* distinct (30 of them in v1.2.0), and a call that names a listed tool is
\* never answered with "Unknown tool".
C13_ListedToolsRouted ==
  /\ \A i, j \in DOMAIN tools : tools[i].name = tools[j].name => i = j
  /\ server = "v1.2.0" => Len(tools) = 30
  /\ \A c \in BagToSet(calls) :
       c.params.name \in { tools[i].name : i \in DOMAIN tools } =>
         ~(/\ Len(c.results) = 1
           /\ TextOf(c.results[1]) = << "Error: ", "Unknown tool: ", c.params.name >>)

=============================================================================
